---------------------------- MODULE Spec2Model ----------------------------
(***************************************************************************)
(* A model of the news-evaluator pipeline: run_analysis (analysis.py) with *)
(* the scraper (scraper.py), the model calls (models.py), the consensus    *)
(* requestor (evaluate.py), the historical statistics and the results      *)
(* table (db.py), and the helpers of utils.py.                             *)
(*                                                                         *)
(* One request runs at a time; requests follow one another and share only  *)
(* the results table.  A URL is modelled by its path, a sequence of        *)
(* one-character strings.  A string of which only the length and the       *)
(* surrounding whitespace matter (title, body text) is a record            *)
(* [lead, core, trail]: leading whitespace, stripped length, trailing      *)
(* whitespace.                                                             *)
(***************************************************************************)
EXTENDS Integers, Sequences, FiniteSets, TLC

VARIABLES
    db,             \* the results table: sequence of rows, in insertion order
    reqCount,       \* requests submitted so far
    pc,             \* where the current request stands in run_analysis
    url,            \* path of the current request's URL
    stream,         \* TRUE: /analyze/stream, FALSE: /analyze
    attempt,        \* tenacity's attempt_number of the running fetch_with_retries
    delays,         \* the waits slept between attempts, in seconds
    lastExc,        \* the exception of the last failed attempt
    fallbackCalls,  \* invocations of fetch_with_playwright by this scrape
    html,           \* where the markup came from: "none", "httpx", "playwright"
    scraped,        \* what scrape_article returned
    metadata,       \* run_analysis' metadata dict
    llmCalls,       \* call_openrouter invocations of this request, in order
    summary,        \* summary_response
    pairs,          \* the evaluator pairs, one call_openrouter coroutine each
    rawResults,     \* raw_results of asyncio.gather, in dispatch order
    evaluations,    \* the evaluations list
    events,         \* SSE events the generator has yielded
    consensus,      \* what aggregate_evaluations returned
    history,        \* what get_consensus_stats_for_url returned
    aggResp,        \* what the consensus call_openrouter returned
    canonResp,      \* what the deduplication call_openrouter returned
    response,       \* how the request ended
    rawText,        \* a raw text handed to the parsing of the call sites
    parsedAt,       \* what each call site made of rawText, once it has parsed it
    runs            \* the runs at work on the results table, and what each read

vars == <<db, reqCount, pc, url, stream, attempt, delays, lastExc, fallbackCalls,
          html, scraped, metadata, llmCalls, summary, pairs, rawResults,
          evaluations, events, consensus, history, aggResp, canonResp, response,
          rawText, parsedAt, runs>>

fetchVars == <<attempt, delays, lastExc, fallbackCalls, html>>
evalVars == <<summary, pairs, rawResults, evaluations, events, consensus, history,
              aggResp, canonResp>>
auxVars == <<rawText, parsedAt, runs>>
pipeVars == <<reqCount, pc, url, stream, fetchVars, scraped, metadata, llmCalls,
              evalVars, response>>

(***************************************************************************)
(* Bounds of the model.                                                    *)
(***************************************************************************)
MaxRequests == 2
MaxPathLen == 3
MaxPool == 2
MaxRuns == 2
MaxListLen == 2
MaxStatsRows == 5
MaxStoreRows == 3
MaxFanoutPairs == 2

None == [t |-> "none"]

Min(a, b) == IF a <= b THEN a ELSE b
Max(a, b) == IF a >= b THEN a ELSE b

RECURSIVE Pow2(_)
Pow2(n) == IF n <= 0 THEN 1 ELSE 2 * Pow2(n - 1)

(***************************************************************************)
(* Character sequences: str.lower, str.strip("/"), str.split("/"),         *)
(* substring search, str.endswith.                                         *)
(***************************************************************************)
Digits == {"0", "1", "2", "3", "4", "5", "6", "7", "8", "9"}

LowerChar(c) == IF c = "N" THEN "n" ELSE IF c = "H" THEN "h" ELSE c

Lower(s) == [i \in 1..Len(s) |-> LowerChar(s[i])]

RECURSIVE LStrip(_, _)
LStrip(s, c) == IF s # <<>> /\ Head(s) = c THEN LStrip(Tail(s), c) ELSE s

RECURSIVE RStrip(_, _)
RStrip(s, c) ==
    IF s # <<>> /\ s[Len(s)] = c THEN RStrip(SubSeq(s, 1, Len(s) - 1), c) ELSE s

Strip(s, c) == RStrip(LStrip(s, c), c)

\* s.split(c): always at least one part; "".split("/") is [""].
RECURSIVE Split(_, _)
Split(s, c) ==
    IF \A i \in 1..Len(s) : s[i] # c
    THEN <<s>>
    ELSE LET k == CHOOSE i \in 1..Len(s) : s[i] = c /\ \A j \in 1..(i - 1) : s[j] # c
         IN  <<SubSeq(s, 1, k - 1)>> \o Split(SubSeq(s, k + 1, Len(s)), c)

MatchesAt(s, i, w) ==
    /\ i + Len(w) - 1 <= Len(s)
    /\ \A j \in 1..Len(w) : s[i + j - 1] = w[j]

Contains(s, w) == \E i \in 1..(Len(s) + 1) : MatchesAt(s, i, w)

EndsWith(s, w) == Len(w) <= Len(s) /\ MatchesAt(s, Len(s) - Len(w) + 1, w)

AllDigits(s, i, n) == i + n - 1 <= Len(s) /\ \A j \in i..(i + n - 1) : s[j] \in Digits

IsSlash(s, i) == i <= Len(s) /\ s[i] = "/"

\* re.search(r"/\d{4}/\d{1,2}/\d{1,2}/", path)
DatePatternSearch(s) ==
    \E i \in 1..Len(s) : \E a \in 1..2 : \E b \in 1..2 :
        /\ IsSlash(s, i)
        /\ AllDigits(s, i + 1, 4)
        /\ IsSlash(s, i + 5)
        /\ AllDigits(s, i + 6, a)
        /\ IsSlash(s, i + 6 + a)
        /\ AllDigits(s, i + 7 + a, b)
        /\ IsSlash(s, i + 7 + a + b)

ArticleKeywords ==
    { <<"a", "r", "t", "i", "c", "l", "e">>, <<"n", "e", "w", "s">>,
      <<"s", "t", "o", "r", "y">>, <<"p", "o", "s", "t", "s">>,
      <<"p", "o", "l", "i", "t", "i", "c", "s">>, <<"w", "o", "r", "l", "d">>,
      <<"e", "c", "o", "n", "o", "m", "y">>, <<"h", "e", "a", "l", "t", "h">> }

DotHtml == <<".", "h", "t", "m", "l">>
DotHtm == <<".", "h", "t", "m">>

\* A faulty looks_like_article_url, "< 1" for "<= 1": C6 must tell it apart.
LooksLikeArticleUrlOffByOne(path) ==
    LET p == Lower(path) IN
    IF p = <<>> \/ p = <<"/">> \/ Len(Split(Strip(p, "/"), "/")) < 1
    THEN FALSE
    ELSE \/ DatePatternSearch(p)
         \/ \E seg \in ArticleKeywords : Contains(p, seg)
         \/ EndsWith(p, DotHtml) \/ EndsWith(p, DotHtm)

\* A faulty looks_like_article_url without the article patterns: C7 must tell
\* it apart.
LooksLikeArticleUrlNoPatterns(path) ==
    LET p == Lower(path) IN
    ~ (p = <<>> \/ p = <<"/">> \/ Len(Split(Strip(p, "/"), "/")) <= 1)

LooksLikeArticleUrl(path) ==
    LET p == Lower(path) IN
    IF p = <<>> \/ p = <<"/">> \/ Len(Split(Strip(p, "/"), "/")) <= 1
    THEN FALSE
    ELSE IF DatePatternSearch(p) THEN TRUE
    ELSE IF \E seg \in ArticleKeywords : Contains(p, seg) THEN TRUE
    ELSE IF EndsWith(p, DotHtml) \/ EndsWith(p, DotHtm) THEN TRUE
    ELSE FALSE

(***************************************************************************)
(* The request paths tried: every path over "/" and "a" of length at most  *)
(* MaxPathLen that urlparse can give (empty, or starting with "/"), and    *)
(* paths that show each rule of looks_like_article_url.                    *)
(***************************************************************************)
RECURSIVE SeqsUpTo(_, _)
SeqsUpTo(S, n) ==
    IF n = 0 THEN {<<>>}
    ELSE LET shorter == SeqsUpTo(S, n - 1)
         IN  shorter \cup {Append(s, c) : s \in shorter, c \in S}

ShortPaths == {p \in SeqsUpTo({"/", "a"}, MaxPathLen) : p = <<>> \/ Head(p) = "/"}

PatternPaths ==
    { <<"/", "n", "e", "w", "s">>,
      <<"/", "a", ".", "h", "t", "m", "l">>,
      <<"/", "n", "e", "w", "s", "/">>,
      <<"/", "a", "/", "/", "a">>,
      <<"/", "a", "/", "b", "/", "c">>,
      <<"/", "N", "e", "w", "s", "/", "a">>,
      <<"/", "a", ".", "h", "t", "m">>,
      <<"/", "2", "0", "2", "4", "/", "1", "/", "0", "2", "/", "a">>,
      <<"/", "2", "0", "2", "4", "/", "1", "/", "a">> }

Paths == ShortPaths \cup PatternPaths

(***************************************************************************)
(* Strings known by their length and surrounding whitespace.               *)
(***************************************************************************)
PadStr(lead, core, trail) == [lead |-> lead, core |-> core, trail |-> trail]

EmptyStr == PadStr(0, 0, 0)

StrLen(s) == s.lead + s.core + s.trail

StrStrip(s) == PadStr(0, s.core, 0)

\* s[:n] of a string without surrounding whitespace
StrTake(s, n) == PadStr(0, Min(s.core, n), 0)

(***************************************************************************)
(* scraper.py: fetch_with_retries under                                    *)
(*   @retry(stop=stop_after_attempt(3),                                    *)
(*          wait=wait_exponential(multiplier=1, min=1, max=8))             *)
(***************************************************************************)
\* A faulty stop: one attempt fewer.
StopAfterAttemptTwo == 3 - 1

StopAfterAttempt == 3

WaitMultiplier == 1
WaitMin == 1
WaitMax == 8

\* tenacity's wait_exponential after attempt attemptNumber:
\* max(max(0, min), min(multiplier * 2 ** (attempt_number - 1), max))
WaitExponential(attemptNumber) ==
    Max(Max(0, WaitMin), Min(WaitMultiplier * Pow2(attemptNumber - 1), WaitMax))

\* What one client.get can do: answer with a status, or raise.
FetchOutcomes ==
    { [kind |-> "response", status |-> st, cls |-> "HTTPStatusError"] :
          st \in {200, 403, 404, 500} }
    \cup
    { [kind |-> "raise", status |-> 0, cls |-> c] : c \in {"ReadTimeout", "ConnectError"} }

\* "if response.status_code >= 400: raise httpx.HTTPStatusError"
AttemptFails(out) == out.kind = "raise" \/ out.status >= 400

AttemptException(out) == [cls |-> out.cls, status |-> out.status]

\* A faulty fallback rule: any HTTP status error falls back.
IsForbiddenAnyStatus(exc) == exc # None /\ exc.cls = "HTTPStatusError"

\* "isinstance(last_exc, httpx.HTTPStatusError) and
\*  last_exc.response.status_code == 403"
IsForbidden(exc) == exc # None /\ exc.cls = "HTTPStatusError" /\ exc.status = 403

RetryErrorDict(exc) ==
    [t |-> "error", error |-> "Fetch failed after retries", cls |-> exc.cls,
     status |-> exc.status]

PlaywrightErrorDict ==
    [t |-> "error", error |-> "Playwright fallback failed", cls |-> "RuntimeError",
     status |-> 0]

(***************************************************************************)
(* What the content extractor (newspaper's Article) can make of the        *)
(* markup: a title (None, or a string) and a body text.                    *)
(***************************************************************************)
NoTitle == [none |-> TRUE, s |-> EmptyStr]

Title(s) == [none |-> FALSE, s |-> s]

Titles ==
    { NoTitle, Title(EmptyStr), Title(PadStr(6, 0, 0)), Title(PadStr(1, 4, 1)),
      Title(PadStr(0, 5, 0)) }

Bodies == { EmptyStr, PadStr(1, 499, 1), PadStr(0, 500, 0) }

\* _parse_html: "text = str(art.text or '').strip()"
ParseHtml(title, body) == [t |-> "article", title |-> title, text |-> StrStrip(body)]

(***************************************************************************)
(* analysis.py, run_analysis lines 87-94: the content checks.              *)
(***************************************************************************)
MinBodyLen == 500
MinTitleLen == 5

\* "scraped.get('text') or ''"
ScrapedText(s) == IF s.t = "article" THEN s.text ELSE EmptyStr

\* "scraped.get('title') or ''"
ScrapedTitle(s) == IF s.t = "article" /\ ~ s.title.none THEN s.title.s ELSE EmptyStr

\* A faulty content check: the title is checked before the body.
ContentCheckTitleFirst(s) ==
    IF StrLen(ScrapedTitle(s)) = 0 \/ StrLen(StrStrip(ScrapedTitle(s))) < MinTitleLen
    THEN "no_title"
    ELSE IF StrLen(StrStrip(ScrapedText(s))) < MinBodyLen THEN "too_short"
    ELSE "ok"

ContentCheck(s) ==
    IF StrLen(StrStrip(ScrapedText(s))) < MinBodyLen THEN "too_short"
    ELSE IF StrLen(ScrapedTitle(s)) = 0 \/ StrLen(StrStrip(ScrapedTitle(s))) < MinTitleLen
    THEN "no_title"
    ELSE "ok"

DefaultMaxSummaryChars == 10000

Rejected(detail) == [kind |-> "rejected", status |-> 400, detail |-> detail]

\* An exception nothing catches: a 500, or, once the generator runs, the end
\* of a stream whose 200 was already sent.
Crashed(stage, exc) == [kind |-> "error", status |-> 500, stage |-> stage, exc |-> exc]

Aborted(stage, exc) == [kind |-> "error", status |-> 200, stage |-> stage, exc |-> exc]

Completed(final) == [kind |-> "ok", status |-> 200, result |-> final]

(***************************************************************************)
(* JSON values (Python dicts, lists, strings, numbers, None).              *)
(***************************************************************************)
JNull == [t |-> "null"]
JStr(x) == [t |-> "str", s |-> x]
\* a string whose content is itself a text, as json.dumps(text) encodes it
JStrOf(text) == [t |-> "str", enc |-> text]
JNum(x) == [t |-> "num", n |-> x]
JList(x) == [t |-> "list", xs |-> x]
JObj(x) == [t |-> "obj", f |-> x]

EmptyDict == JObj([k \in {} |-> JNull])

IsDict(v) == v.t = "obj"

HasKey(d, k) == k \in DOMAIN d.f

\* d.get(k, default)
Get(d, k, default) == IF k \in DOMAIN d.f THEN d.f[k] ELSE default

(***************************************************************************)
(* The text of a completion.  A text is known by its form: the JSON text   *)
(* of a value ("json"), that text inside ```json ... ``` fences            *)
(* ("fenced"), that text with prose before and after it ("embedded"),      *)
(* prose with no brace or bracket in it ("prose"), or the empty string     *)
(* ("empty").  json.dumps(json.dumps(v)) is TextJson(DoubleEncoded(v)).    *)
(***************************************************************************)
TextJson(v) == [form |-> "json", val |-> v]
TextFenced(v) == [form |-> "fenced", val |-> v]
TextEmbedded(v) == [form |-> "embedded", val |-> v]
TextProse == [form |-> "prose", val |-> JNull]
TextEmpty == [form |-> "empty", val |-> JNull]

\* What is left of the JSON text of the string str once the quotes around it
\* are stripped: its content, with every quote and backslash in it still
\* escaped.
TextEscaped(str) == [form |-> "escaped", val |-> str]

DoubleEncoded(v) == JStrOf(TextJson(v))

Failed == [ok |-> FALSE, val |-> JNull]

\* json.loads(text): [ok, val]; ok = FALSE is a JSONDecodeError
JsonLoads(text) ==
    IF text.form = "json" THEN [ok |-> TRUE, val |-> text.val]
    ELSE Failed

\* The JSON text of v holds no quote and no backslash: escaping leaves it as
\* it is.  Every key of an object and every string comes with quotes.
RECURSIVE QuoteFree(_)
QuoteFree(v) ==
    \/ v.t \in {"num", "null"}
    \/ v.t = "obj" /\ DOMAIN v.f = {}
    \/ v.t = "list" /\ \A i \in 1..Len(v.xs) : QuoteFree(v.xs[i])

\* The string holds the JSON text of a value
HoldsJson(str) == "enc" \in DOMAIN str /\ str.enc.form = "json"

\* clean_llm_json lines 15-17: the fences at the start and at the end go
StripFences(text) == IF text.form = "fenced" THEN TextJson(text.val) ELSE text

\* line 18: .strip('"').strip("'") takes the quotes off a JSON string
StripQuotes(text) ==
    IF text.form = "json" /\ text.val.t = "str" THEN TextEscaped(text.val) ELSE text

\* json.loads of a stripped text.  Escaped content decodes when it is the
\* JSON text of a value and the escaping changed nothing of it.
LoadsStripped(text) ==
    IF text.form = "json" THEN [ok |-> TRUE, val |-> text.val]
    ELSE IF text.form = "escaped" /\ HoldsJson(text.val) /\ QuoteFree(text.val.enc.val)
    THEN [ok |-> TRUE, val |-> text.val.enc.val]
    ELSE Failed

\* lines 27-31: json.loads(json.loads(text)), tried when json.loads(text)
\* has just raised: the inner call raises again
LoadsTwice(text) ==
    IF ~ LoadsStripped(text).ok THEN Failed
    ELSE IF LoadsStripped(text).val.t = "str" /\ HoldsJson(LoadsStripped(text).val)
    THEN JsonLoads(LoadsStripped(text).val.enc)
    ELSE Failed

\* lines 34-43: the span from the first { or [ to the last } or ], decoded as
\* it is or with ' replaced by "
LoadsSpan(text) ==
    IF text.form = "embedded" THEN [ok |-> TRUE, val |-> text.val]
    ELSE IF text.form \in {"json", "escaped"} THEN LoadsStripped(text)
    ELSE Failed

\* utils.clean_llm_json
CleanLlmJson(text) ==
    IF text.form = "empty" THEN EmptyDict
    ELSE LET stripped == StripQuotes(StripFences(text))
         IN  IF LoadsStripped(stripped).ok THEN LoadsStripped(stripped).val
             ELSE IF LoadsTwice(stripped).ok THEN LoadsTwice(stripped).val
             ELSE IF LoadsSpan(stripped).ok THEN LoadsSpan(stripped).val
             ELSE EmptyDict

(***************************************************************************)
(* models.call_openrouter: the response dict, or, on any exception, the    *)
(* tuple ("Error:", e).  It never raises.                                  *)
(***************************************************************************)
ErrorTuple == [t |-> "tuple", model |-> "", text |-> TextEmpty]

Completion(model, text) == [t |-> "dict", model |-> model, text |-> text]

IsException(r) == r.t = "exception"

(***************************************************************************)
(* The pydantic models of analysis.py and db.py: what validates.           *)
(***************************************************************************)
IsStr(v) == v.t = "str"
IsOptStr(v) == v.t \in {"str", "null"}
IsNum(v) == v.t = "num"
IsListOf(v, P(_)) == v.t = "list" /\ \A i \in 1..Len(v.xs) : P(v.xs[i])
IsOptListOfStr(v) == v.t = "null" \/ IsListOf(v, IsStr)

\* class Summary
ValidSummary(v) ==
    /\ IsDict(v)
    /\ {"summary", "topics", "type"} \subseteq DOMAIN v.f
    /\ IsStr(v.f.summary) /\ IsListOf(v.f.topics, IsStr) /\ IsStr(v.f.type)

\* class Article
ValidArticle(v) ==
    /\ IsDict(v)
    /\ {"perspective", "tone_language", "fairness", "headline_article"} \subseteq DOMAIN v.f
    /\ IsStr(v.f.perspective) /\ IsOptListOfStr(v.f.tone_language)
    /\ IsStr(v.f.fairness) /\ IsStr(v.f.headline_article)
    /\ IsOptStr(Get(v, "notes", JNull))

\* class Publication
ValidPublication(v) ==
    /\ IsDict(v)
    /\ {"source_of_funding", "location", "ownership"} \subseteq DOMAIN v.f
    /\ IsOptListOfStr(v.f.source_of_funding)
    /\ IsOptStr(v.f.location) /\ IsOptStr(v.f.ownership)

\* class EvaluationDisagreement, class Disagreement
ValidEvaluationDisagreement(v) == IsDict(v) /\ {"model", "value"} \subseteq DOMAIN v.f
    /\ IsOptStr(v.f.model)

ValidDisagreement(v) ==
    /\ IsDict(v)
    /\ {"field", "evaluations"} \subseteq DOMAIN v.f
    /\ IsOptStr(v.f.field)
    /\ (v.f.evaluations.t = "null"
        \/ IsListOf(v.f.evaluations, ValidEvaluationDisagreement))

\* class Consensus
ValidConsensus(v) ==
    /\ IsDict(v)
    /\ {"article", "publication", "confidence", "notes"} \subseteq DOMAIN v.f
    /\ ValidArticle(v.f.article) /\ ValidPublication(v.f.publication)
    /\ IsNum(v.f.confidence) /\ IsStr(v.f.notes)
    /\ LET d == Get(v, "disagreements", JList(<<>>))
       IN  d.t = "null" \/ IsListOf(d, ValidDisagreement)

\* class ModelEvaluation
ValidModelEvaluation(v) ==
    /\ IsDict(v)
    /\ {"model", "article", "publication"} \subseteq DOMAIN v.f
    /\ IsStr(v.f.model) /\ ValidArticle(v.f.article) /\ ValidPublication(v.f.publication)
    /\ Get(v, "raw", JNull).t \in {"null", "obj"}

\* model_dump of a validated Article, Publication, Consensus, ModelEvaluation
DumpArticle(v) ==
    JObj([perspective |-> v.f.perspective, tone_language |-> v.f.tone_language,
          fairness |-> v.f.fairness, headline_article |-> v.f.headline_article,
          notes |-> Get(v, "notes", JNull)])

DumpPublication(v) ==
    JObj([source_of_funding |-> v.f.source_of_funding, location |-> v.f.location,
          ownership |-> v.f.ownership])

DumpConsensus(v) ==
    JObj([article |-> DumpArticle(v.f.article),
          publication |-> DumpPublication(v.f.publication),
          confidence |-> v.f.confidence,
          disagreements |-> Get(v, "disagreements", JList(<<>>)),
          notes |-> v.f.notes])

DumpModelEvaluation(v) ==
    JObj([model |-> v.f.model, article |-> DumpArticle(v.f.article),
          publication |-> DumpPublication(v.f.publication),
          raw |-> Get(v, "raw", JNull)])

(***************************************************************************)
(* The completions tried.  Confidence is in hundredths.                    *)
(***************************************************************************)
SummaryGood ==
    JObj([summary |-> JStr("S"), topics |-> JList(<<JStr("Elections")>>),
          type |-> JStr("Reporting")])

ArticleGood ==
    JObj([perspective |-> JStr("Neutral"), tone_language |-> JList(<<JStr("Restrained")>>),
          fairness |-> JStr("High"), headline_article |-> JStr("Small"),
          notes |-> JStr("N")])

ArticleSplit ==
    JObj([perspective |-> JStr("Neutral"), tone_language |-> JList(<<>>),
          fairness |-> JStr("No Consensus"), headline_article |-> JStr("Small"),
          notes |-> JStr("N")])

PublicationGood ==
    JObj([source_of_funding |-> JList(<<JStr("Advertising")>>),
          location |-> JStr("Canada"), ownership |-> JNull])

EvaluationGood == JObj([article |-> ArticleGood, publication |-> PublicationGood])

ConsensusGood ==
    JObj([article |-> ArticleGood, publication |-> PublicationGood,
          confidence |-> JNum(100), disagreements |-> JList(<<>>), notes |-> JStr("C")])

ConsensusSplit ==
    JObj([article |-> ArticleSplit, publication |-> PublicationGood,
          confidence |-> JNum(71),
          disagreements |->
              JList(<<JObj([field |-> JStr("fairness"),
                            evaluations |->
                                JList(<<JObj([model |-> JStr("m1"),
                                              value |-> JStr("High")])>>)])>>),
          notes |-> JStr("C")])

\* a JSON object that is no Consensus
ConsensusWrongShape == JObj([verdict |-> JStr("Fair")])

SummaryModelName == "summary-model"
ConsensusModelName == "consensus-model"

SummaryResponses ==
    { ErrorTuple,
      Completion(SummaryModelName, TextJson(SummaryGood)),
      Completion(SummaryModelName, TextProse) }

\* The model OpenRouter answers with is one of the pair asked for; the first
\* is taken here.
EvaluatorResponses(pair) ==
    { ErrorTuple,
      Completion(pair[1], TextJson(EvaluationGood)),
      Completion(pair[1], TextProse),
      Completion(pair[1], TextJson(JList(<<>>))) }

AggregatorResponses ==
    { ErrorTuple,
      Completion(ConsensusModelName, TextJson(ConsensusGood)),
      Completion(ConsensusModelName, TextFenced(ConsensusGood)),
      Completion(ConsensusModelName, TextJson(ConsensusSplit)),
      Completion(ConsensusModelName, TextJson(ConsensusWrongShape)),
      Completion(ConsensusModelName, TextProse) }

(***************************************************************************)
(* analysis.py, run_analysis lines 163-167: the evaluator pairs.           *)
(***************************************************************************)
ModelNames == <<"m1", "m2", "m3", "m4", "m5", "m6", "m7", "m8">>

PoolCap == 6
PairCap == 3

\* random.shuffle(model_list): any order of the pool
RECURSIVE Orders(_)
Orders(S) ==
    IF S = {} THEN {<<>>}
    ELSE UNION {{<<x>> \o o : o \in Orders(S \ {x})} : x \in S}

Shuffles(ml) == {[i \in 1..Len(ml) |-> ml[o[i]]] : o \in Orders(1..Len(ml))}

\* [(model_list[i], model_list[i + 1]) for i in range(0, min(len, 6), 2)][:3]
\* ok = FALSE: model_list[i + 1] is out of range, an IndexError
BuildPairs(ml) ==
    LET starts == {i \in 0..(Min(Len(ml), PoolCap) - 1) : i % 2 = 0}
        all == [k \in 1..Cardinality(starts) |-> <<ml[2 * k - 1], ml[2 * k]>>]
    IN  IF \E i \in starts : i + 2 > Len(ml)
        THEN [ok |-> FALSE, pairs |-> <<>>]
        ELSE [ok |-> TRUE, pairs |-> SubSeq(all, 1, Min(Len(all), PairCap))]

(***************************************************************************)
(* analysis.py, the loop over raw_results: lines 180-220 (streaming) and   *)
(* 250-279 (not streaming).  Each gives [ok, val, exc]: the evaluation     *)
(* dict, or the exception the loop body raises.                            *)
(***************************************************************************)
Raise(exc) == [ok |-> FALSE, val |-> JNull, exc |-> exc]
Return(v) == [ok |-> TRUE, val |-> v, exc |-> ""]

SentinelEvaluation ==
    JObj([model |-> JStr("error"),
          article |-> JObj([bias |-> JStr("Unknown"), credibility |-> JStr("Unknown"),
                            notes |-> JStr("Model call failed")]),
          publication |-> JObj([source_of_funding |-> JNull, location |-> JNull]),
          raw |-> JNull])

\* "try: parsed = json.loads(text) / except Exception: parsed = {}"
LoadsOrEmpty(text) == IF JsonLoads(text).ok THEN JsonLoads(text).val ELSE EmptyDict

EvaluationDict(r, parsed) ==
    JObj([model |-> JStr(r.model),
          article |-> Get(parsed, "article", EmptyDict),
          publication |-> Get(parsed, "publication", EmptyDict),
          raw |-> JObj([text |-> parsed, normalized |-> parsed])])

\* lines 250-279
BatchEvaluation(r) ==
    IF IsException(r) THEN Return(SentinelEvaluation)
    ELSE IF r.t # "dict" THEN Raise("AttributeError")          \* r.get on a tuple
    ELSE LET parsed == LoadsOrEmpty(r.text)
         IN  IF ~ IsDict(parsed) THEN Raise("AttributeError")  \* parsed.get
             ELSE Return(EvaluationDict(r, parsed))

\* lines 180-220; json.loads(json.dumps(parsed)) of a decoded value is that value
StreamEvaluation(r) ==
    IF IsException(r) THEN Return(SentinelEvaluation)
    ELSE IF r.t # "dict" THEN Raise("AttributeError")
    ELSE LET parsed == LoadsOrEmpty(r.text)
         IN  IF ~ IsDict(parsed) THEN Raise("AttributeError")
             ELSE Return(EvaluationDict(r, parsed))

\* The generator's local "evaluation" when line 193 yields it: the dict of
\* the last result that was no exception; unbound when there was none.
RECURSIVE LastEvaluation(_, _)
LastEvaluation(results, evals) ==
    IF results = <<>> THEN Raise("UnboundLocalError")
    ELSE IF ~ IsException(results[Len(results)]) THEN Return(evals[Len(results)])
    ELSE LastEvaluation(SubSeq(results, 1, Len(results) - 1), evals)

\* The payload of the evaluation event of result i, whose dict is ev.
StreamEventPayload(results, evals, i, ev) ==
    IF IsException(results[i]) THEN LastEvaluation(SubSeq(results, 1, i - 1), evals)
    ELSE Return(ev)

SseEvent(event, data) == [event |-> event, data |-> data]

(***************************************************************************)
(* evaluate.py, aggregate_evaluations: [ok, val, exc].                     *)
(***************************************************************************)
\* the dict of line 173
ConsensusFallback(err) ==
    JObj([summary |-> JStr(""), conclusion |-> JStr("Validation failed"),
          notes |-> JStr(err)])

ConsensusResponseOf(parsed, model) ==
    JObj([article |-> Get(parsed, "article", EmptyDict),
          publication |-> Get(parsed, "publication", EmptyDict),
          confidence |-> Get(parsed, "confidence", EmptyDict),
          notes |-> Get(parsed, "notes", EmptyDict),
          disagreements |-> Get(parsed, "disagreements", EmptyDict),
          model |-> JStr(model)])

\* evaluate.py lines 156-166: what is not a dict or a list goes to json.loads,
\* which raises TypeError on it
ConsensusParse(text) ==
    LET cleaned == CleanLlmJson(text)
    IN  IF cleaned.t \in {"obj", "list"} THEN cleaned ELSE EmptyDict

AggregateEvaluations(evals, resp) ==
    IF resp.t # "dict" THEN Raise("AttributeError")            \* resp.get on a tuple
    ELSE LET parsedJson == ConsensusParse(resp.text)
         IN  IF ValidConsensus(parsedJson)
             THEN Return(ConsensusResponseOf(DumpConsensus(parsedJson), resp.model))
             ELSE IF ValidConsensus(ConsensusFallback("ValidationError"))
             THEN Return(ConsensusResponseOf(
                      DumpConsensus(ConsensusFallback("ValidationError")), resp.model))
             ELSE Raise("ValidationError")                      \* raised in the handler

(***************************************************************************)
(* db.py, get_consensus_stats_for_url.  A row holds of the persisted       *)
(* result what this function reads back: the consensus and each            *)
(* evaluation, with their article and publication.                         *)
(***************************************************************************)
CONSENSUS_FIELDS ==
    <<"perspective", "tone_language", "fairness", "headline_article",
      "source_of_funding", "ownership", "location">>

ArticleFields == {"perspective", "tone_language", "fairness", "headline_article"}

FieldSet == {CONSENSUS_FIELDS[i] : i \in 1..Len(CONSENSUS_FIELDS)}

\* every row, whatever its URL
RowsForAnyUrl(table, u) == table

\* "SELECT result FROM results WHERE url = ?"
RowsFor(table, u) == SelectSeq(table, LAMBDA row : row.url = u)

\* mapping[field] of lines 67-75 and 85-93
FieldOf(d, field) ==
    LET part == IF field \in ArticleFields THEN Get(d, "article", EmptyDict)
                ELSE Get(d, "publication", EmptyDict)
    IN  Get(part, field, JNull)

\* field_values[field]: the rows' consensus values that are not None
RECURSIVE FieldValues(_, _)
FieldValues(rows, field) ==
    IF rows = <<>> THEN <<>>
    ELSE LET v == FieldOf(Get(Head(rows).result, "consensus", EmptyDict), field)
         IN  (IF v = JNull THEN <<>> ELSE <<v>>) \o FieldValues(Tail(rows), field)

\* what one evaluation adds to field_answers[field]: lists are flattened
AnswersOf(ev, field) ==
    LET a == FieldOf(ev, field)
    IN  IF a = JNull THEN <<>> ELSE IF a.t = "list" THEN a.xs ELSE <<a>>

RECURSIVE AnswersOfAll(_, _)
AnswersOfAll(evs, field) ==
    IF evs = <<>> THEN <<>>
    ELSE AnswersOf(Head(evs), field) \o AnswersOfAll(Tail(evs), field)

RECURSIVE FieldAnswers(_, _)
FieldAnswers(rows, field) ==
    IF rows = <<>> THEN <<>>
    ELSE AnswersOfAll(Get(Head(rows).result, "evaluations", JList(<<>>)).xs, field)
         \o FieldAnswers(Tail(rows), field)

\* str(v).lower() == "no consensus"
LowerStr(x) ==
    IF x \in {"No Consensus", "NO CONSENSUS", "No consensus"} THEN "no consensus" ELSE x

IsNoConsensus(v) == v.t = "str" /\ LowerStr(v.s) = "no consensus"

CountIn(q, P(_)) == Cardinality({i \in 1..Len(q) : P(q[i])})

\* Counter(answers) as [answer, count] in the order of first occurrence
RECURSIVE AnswerCounts(_)
AnswerCounts(q) ==
    IF q = <<>> THEN <<>>
    ELSE LET a == Head(q)
         IN  <<[answer |-> a, count |-> CountIn(q, LAMBDA x : x = a)]>>
             \o AnswerCounts(SelectSeq(Tail(q), LAMBDA x : x # a))

\* the tenths below, whatever the remainder
RoundedPctTruncating(count, total) == (1000 * count) \div total

\* round((count / total) * 100, 1), in tenths of a percent; a tie goes to the
\* even tenth
RoundedPct(count, total) ==
    LET q == (1000 * count) \div total
        r == (1000 * count) % total
    IN  IF 2 * r < total THEN q
        ELSE IF 2 * r > total THEN q + 1
        ELSE IF q % 2 = 0 THEN q ELSE q + 1

FieldStats(rows, field) ==
    LET values == FieldValues(rows, field)
        no == CountIn(values, IsNoConsensus)
        yes == Len(values) - no
        total == no + yes
    IN  [no_consensus |-> RoundedPct(no, total), consensus |-> RoundedPct(yes, total),
         total |-> total, answers |-> AnswerCounts(FieldAnswers(rows, field))]

\* lines 57-124: the stats dict; a field with no value is left out
RawStats(rows) ==
    [field \in {f \in FieldSet : FieldValues(rows, f) # <<>>} |-> FieldStats(rows, field)]

\* class StatsAnswer, FieldStats, Deduplication
ValidStatsAnswer(v) ==
    IsDict(v) /\ {"answer", "count"} \subseteq DOMAIN v.f /\ IsStr(v.f.answer) /\ IsNum(v.f.count)

ValidFieldStats(v) ==
    IsDict(v) /\ \A k \in DOMAIN v.f : IsListOf(v.f[k], ValidStatsAnswer)

ValidDeduplication(v) ==
    IsDict(v) /\ HasKey(v, "stats") /\ IsListOf(v.f.stats, ValidFieldStats)

\* {k: v for field_obj in stats_data for k, v in field_obj.items()}
DedupedMap(statsData) ==
    LET keys == UNION {DOMAIN statsData[i].f : i \in 1..Len(statsData)}
        lastWith(k) == CHOOSE i \in 1..Len(statsData) :
                           /\ k \in DOMAIN statsData[i].f
                           /\ \A j \in (i + 1)..Len(statsData) : k \notin DOMAIN statsData[j].f
    IN  [k \in keys |-> statsData[lastWith(k)].f[k].xs]

RECURSIVE SumCounts(_)
SumCounts(answers) ==
    IF answers = <<>> THEN 0 ELSE Head(answers).f.count.n + SumCounts(Tail(answers))

\* lines 182-188: total and answers of the fields the response names
MergeDeduped(stats, deduped) ==
    [field \in DOMAIN stats |->
        IF field \in DOMAIN deduped
        THEN [stats[field] EXCEPT
                 !.total = SumCounts(deduped[field]),
                 !.answers = [i \in 1..Len(deduped[field]) |->
                                 [answer |-> deduped[field][i].f.answer,
                                  count |-> deduped[field][i].f.count.n]]]
        ELSE stats[field]]

EmptyStats == [field \in {} |-> 0]

HistoryOf(u, stats, model) == [url |-> u, stats |-> stats, model |-> model]

\* db.py line 174: model_validate_json decodes the text as it is
HistoryParse(text) == JsonLoads(text)

\* lines 170-190, after the rows were found: [ok, val, exc]
Canonicalize(u, stats, resp) ==
    IF resp.t # "dict" THEN Raise("TypeError")                 \* result["text"] on a tuple
    ELSE IF ~ (HistoryParse(resp.text).ok /\ ValidDeduplication(HistoryParse(resp.text).val))
    THEN Raise("ValidationError")                               \* model_validate_json
    ELSE Return(HistoryOf(u, MergeDeduped(stats,
                    DedupedMap(HistoryParse(resp.text).val.f.stats.xs)), resp.model))

DedupNothing == JObj([stats |-> JList(<<>>)])

DedupFairness ==
    JObj([stats |->
        JList(<<JObj([fairness |->
                    JList(<<JObj([answer |-> JStr("High"), count |-> JNum(3)])>>)])>>)])

\* a response that names a field and gives it no answer
DedupFairnessEmpty == JObj([stats |-> JList(<<JObj([fairness |-> JList(<<>>)])>>)])

DeduplicationResponses ==
    { ErrorTuple,
      Completion(SummaryModelName, TextJson(DedupFairnessEmpty)),
      Completion(SummaryModelName, TextJson(DedupNothing)),
      Completion(SummaryModelName, TextJson(DedupFairness)),
      Completion(SummaryModelName, TextFenced(DedupNothing)),
      Completion(SummaryModelName, TextProse) }

(***************************************************************************)
(* analysis.py lines 228-240 / 285-297: AnalyzeResponse and the row.       *)
(***************************************************************************)
ValidAnalyzeResponse(evals) == \A i \in 1..Len(evals) : ValidModelEvaluation(evals[i])

FinalResult(u, meta, summ, evals, cons, hist) ==
    [url |-> u, title |-> meta.title, summary |-> summ,
     evaluations |-> [i \in 1..Len(evals) |-> DumpModelEvaluation(evals[i])],
     consensus |-> cons, history |-> hist]

\* A row of results: the URL, and of the result what the stats read back
StoredRow(u, cons, evals) ==
    [url |-> u,
     result |->
        JObj([consensus |->
                  JObj([article |-> cons.f.article, publication |-> cons.f.publication]),
              evaluations |->
                  JList([i \in 1..Len(evals) |->
                            JObj([article |-> evals[i].f.article,
                                  publication |-> evals[i].f.publication])])])]

RowOf(final) == StoredRow(final.url, final.consensus, final.evaluations)

\* any earlier row of the URL gives way to the new one
InsertRowReplacing(table, row) ==
    Append(SelectSeq(table, LAMBDA old : old.url # row.url), row)

\* db.insert_result: INSERT INTO results
InsertRow(table, row) == Append(table, row)

(***************************************************************************)
(* The state machine.                                                      *)
(***************************************************************************)
\* No request is in run_analysis.
AtRest ==
    /\ reqCount = 0
    /\ pc = "idle"
    /\ url = <<>>
    /\ stream = FALSE
    /\ attempt = 0
    /\ delays = <<>>
    /\ lastExc = None
    /\ fallbackCalls = 0
    /\ html = "none"
    /\ scraped = None
    /\ metadata = None
    /\ llmCalls = <<>>
    /\ summary = None
    /\ pairs = <<>>
    /\ rawResults = <<>>
    /\ evaluations = <<>>
    /\ events = <<>>
    /\ consensus = None
    /\ history = None
    /\ aggResp = None
    /\ canonResp = None
    /\ response = None

\* The places that decode the text of a completion: utils.clean_llm_json
\* itself, the fan-out (analysis.py lines 204-209 and 268-272), the consensus
\* call (evaluate.py lines 156-166) and the canonicalization (db.py line 174).
Sites == {"normalizer", "fanout", "consensus", "history"}

\* What the site makes of text: [ok, val, exc]
ParsedBy(site, text) ==
    IF site = "normalizer" THEN Return(CleanLlmJson(text))
    ELSE IF site = "fanout" THEN Return(LoadsOrEmpty(text))
    ELSE IF site = "consensus" THEN Return(ConsensusParse(text))
    ELSE IF HistoryParse(text).ok THEN Return(HistoryParse(text).val)
    ELSE Raise("ValidationError")

\* The URLs submitted to the runs at the table
StoreUrls ==
    { <<"/", "N", "e", "w", "s", "/", "a">>,
      <<"/", "2", "0", "2", "4", "/", "1", "/", "0", "2", "/", "a">> }

\* The runs that may be at the results table at once.
RunIds == 1..MaxRuns

\* A run at the table: where it is, its URL, the number of rows its SELECT
\* returned, and the number of its submissions of each URL that completed.
IdleRun == [at |-> "idle", url |-> <<>>, seen |-> 0, ended |-> [u \in StoreUrls |-> 0]]

\* No text is being parsed and no run is at the table.
Quiet ==
    /\ rawText = TextEmpty
    /\ parsedAt = [site \in Sites |-> None]
    /\ runs = [r \in RunIds |-> IdleRun]

Init ==
    /\ db = <<>>
    /\ AtRest
    /\ Quiet

\* The end of a request by an exception raised at stage.
Fails(stage, exc) ==
    /\ pc' = "done"
    /\ response' = IF stream /\ stage \notin {"summary", "dispatch"}
                   THEN Aborted(stage, exc) ELSE Crashed(stage, exc)

\* app.analyze / app.analyze_stream call run_analysis: lines 75-83, up to the
\* first client.get.  Nothing of an earlier request is kept but the table.
Submit(p, s) ==
    /\ UNCHANGED auxVars
    /\ pc \in {"idle", "done"}
    /\ reqCount < MaxRequests
    /\ reqCount' = reqCount + 1
    /\ url' = p
    /\ stream' = s
    /\ attempt' = 0
    /\ delays' = <<>>
    /\ lastExc' = None
    /\ fallbackCalls' = 0
    /\ html' = "none"
    /\ scraped' = None
    /\ metadata' = None
    /\ llmCalls' = <<>>
    /\ summary' = None
    /\ pairs' = <<>>
    /\ rawResults' = <<>>
    /\ evaluations' = <<>>
    /\ events' = <<>>
    /\ consensus' = None
    /\ history' = None
    /\ aggResp' = None
    /\ canonResp' = None
    /\ IF LooksLikeArticleUrl(p)
       THEN pc' = "fetch" /\ response' = None
       ELSE pc' = "done" /\ response' = Rejected("not_article_url")
    /\ UNCHANGED db

\* scraper.fetch_with_retries: one attempt and what tenacity does after it.
FetchAttempt(out) ==
    /\ UNCHANGED auxVars
    /\ pc = "fetch"
    /\ attempt' = attempt + 1
    /\ IF ~ AttemptFails(out)
       THEN /\ html' = "httpx"
            /\ pc' = "parse"
            /\ UNCHANGED <<delays, lastExc, scraped>>
       ELSE /\ lastExc' = AttemptException(out)
            /\ html' = html
            /\ IF attempt + 1 >= StopAfterAttempt
               THEN \* RetryError, caught at scraper.py line 75
                    /\ delays' = delays
                    /\ IF IsForbidden(AttemptException(out))
                       THEN pc' = "playwright" /\ scraped' = scraped
                       ELSE pc' = "gate"
                            /\ scraped' = RetryErrorDict(AttemptException(out))
               ELSE /\ delays' = Append(delays, WaitExponential(attempt + 1))
                    /\ pc' = "fetch"
                    /\ scraped' = scraped
    /\ UNCHANGED <<db, reqCount, url, stream, fallbackCalls, metadata, llmCalls,
                   evalVars, response>>

\* scraper.fetch_with_playwright, called at line 80
PlaywrightFallback(ok) ==
    /\ UNCHANGED auxVars
    /\ pc = "playwright"
    /\ fallbackCalls' = fallbackCalls + 1
    /\ IF ok
       THEN html' = "playwright" /\ pc' = "parse" /\ scraped' = scraped
       ELSE html' = html /\ pc' = "gate" /\ scraped' = PlaywrightErrorDict
    /\ UNCHANGED <<db, reqCount, url, stream, attempt, delays, lastExc, metadata,
                   llmCalls, evalVars, response>>

\* The retry state of a scrape lives as long as the scrape.
ScrapeOver ==
    /\ attempt' = 0
    /\ delays' = <<>>
    /\ lastExc' = None
    /\ fallbackCalls' = 0
    /\ html' = "none"

\* scraper._parse_html returns the article, and scrape_article returns it
ParseArticle(title, body) ==
    /\ UNCHANGED auxVars
    /\ pc = "parse"
    /\ scraped' = ParseHtml(title, body)
    /\ pc' = "gate"
    /\ ScrapeOver
    /\ UNCHANGED <<db, reqCount, url, stream, metadata, llmCalls, evalVars, response>>

\* scraper._parse_html raises; run_analysis lines 84-85
ParseRaises ==
    /\ UNCHANGED auxVars
    /\ pc = "parse"
    /\ pc' = "done"
    /\ response' = Rejected("failed_to_scrape")
    /\ ScrapeOver
    /\ UNCHANGED <<db, reqCount, url, stream, scraped, metadata, llmCalls, evalVars>>

\* run_analysis lines 87-103
ContentGate ==
    /\ UNCHANGED auxVars
    /\ pc = "gate"
    /\ ScrapeOver
    /\ IF ContentCheck(scraped) = "too_short"
       THEN pc' = "done" /\ response' = Rejected("too_short") /\ metadata' = metadata
       ELSE IF ContentCheck(scraped) = "no_title"
       THEN pc' = "done" /\ response' = Rejected("no_title") /\ metadata' = metadata
       ELSE /\ pc' = "summary"
            /\ response' = response
            /\ metadata' = [title |-> ScrapedTitle(scraped), url |-> url,
                            content |-> StrTake(ScrapedText(scraped),
                                                DefaultMaxSummaryChars)]
    /\ UNCHANGED <<db, reqCount, url, stream, scraped, llmCalls, evalVars>>

\* run_analysis lines 105-158: the summary call and its validation
SummaryCall(resp) ==
    /\ UNCHANGED auxVars
    /\ pc = "summary"
    /\ llmCalls' = Append(llmCalls, "summary")
    /\ IF resp.t # "dict"
       THEN Fails("summary", "TypeError") /\ summary' = summary   \* result['text']
       ELSE IF ~ (JsonLoads(resp.text).ok /\ ValidSummary(JsonLoads(resp.text).val))
       THEN Fails("summary", "ValidationError") /\ summary' = summary
       ELSE /\ summary' = [summary |-> JsonLoads(resp.text).val, model |-> resp.model]
            /\ pc' = "dispatch"
            /\ response' = response
    /\ UNCHANGED <<db, reqCount, url, stream, fetchVars, scraped, metadata, pairs,
                   rawResults, evaluations, events, consensus, history, aggResp,
                   canonResp>>

\* run_analysis lines 161-172 and 244-245: the pool EVALUATION_MODELS holds at
\* that moment is shuffled and paired, and the coroutines are built
Dispatch(shuffled) ==
    /\ UNCHANGED auxVars
    /\ pc = "dispatch"
    /\ IF ~ BuildPairs(shuffled).ok
       THEN Fails("dispatch", "IndexError") /\ pairs' = pairs
       ELSE /\ pairs' = BuildPairs(shuffled).pairs
            /\ response' = response
            /\ pc' = IF stream THEN "stream_start"
                     ELSE IF BuildPairs(shuffled).pairs = <<>> THEN "consensus"
                     ELSE "gather"
    /\ UNCHANGED <<db, reqCount, url, stream, fetchVars, scraped, metadata, llmCalls,
                   summary, rawResults, evaluations, events, consensus, history,
                   aggResp, canonResp>>

\* event_stream line 176: the consumer takes the first event
StreamStart ==
    /\ UNCHANGED auxVars
    /\ pc = "stream_start"
    /\ events' = Append(events, SseEvent("status", "Evaluating article..."))
    /\ pc' = IF pairs = <<>> THEN "announce_consensus" ELSE "gather"
    /\ UNCHANGED <<db, reqCount, url, stream, fetchVars, scraped, metadata, llmCalls,
                   summary, pairs, rawResults, evaluations, consensus, history,
                   aggResp, canonResp, response>>

\* asyncio.gather (lines 177, 248) runs the next coroutine: call_openrouter
\* holds no await, so the loop runs the calls one after the other, in dispatch
\* order.  requests.post (models.py line 131) sends the request and blocks the
\* event loop until the response is there.
EvaluatorCall ==
    /\ UNCHANGED auxVars
    /\ pc = "gather"
    /\ llmCalls' = Append(llmCalls, "evaluation")
    /\ pc' = "calling"
    /\ UNCHANGED <<db, reqCount, url, stream, fetchVars, scraped, metadata, summary,
                   pairs, rawResults, evaluations, events, consensus, history, aggResp,
                   canonResp, response>>

\* models.py lines 131-138: the response, or the exception, of the call the
\* loop is blocked in; the coroutine returns and the next one may run
EvaluatorReturn ==
    /\ UNCHANGED auxVars
    /\ pc = "calling"
    /\ \E resp \in EvaluatorResponses(pairs[Len(rawResults) + 1]) :
           rawResults' = Append(rawResults, resp)
    /\ pc' = IF Len(rawResults) + 1 = Len(pairs) THEN "process" ELSE "gather"
    /\ UNCHANGED <<db, reqCount, url, stream, fetchVars, scraped, metadata, llmCalls,
                   summary, pairs, evaluations, events, consensus, history, aggResp,
                   canonResp, response>>

\* One turn of the loop over raw_results: lines 180-220 with the yield of the
\* evaluation event, or lines 250-279.
ProcessResult ==
    /\ UNCHANGED auxVars
    /\ pc = "process"
    /\ LET i == Len(evaluations) + 1
           ev == IF stream THEN StreamEvaluation(rawResults[i])
                 ELSE BatchEvaluation(rawResults[i])
           payload == StreamEventPayload(rawResults, evaluations, i, ev.val)
       IN  IF ~ ev.ok
           THEN Fails("evaluations", ev.exc) /\ UNCHANGED <<evaluations, events>>
           ELSE IF stream /\ ~ payload.ok
           THEN /\ Fails("evaluations", payload.exc)
                /\ evaluations' = Append(evaluations, ev.val)
                /\ events' = events
           ELSE /\ evaluations' = Append(evaluations, ev.val)
                /\ events' = IF stream
                             THEN Append(events, SseEvent("evaluation", payload.val))
                             ELSE events
                /\ response' = response
                /\ pc' = IF i < Len(rawResults) THEN "process"
                         ELSE IF stream THEN "announce_consensus" ELSE "consensus"
    /\ UNCHANGED <<db, reqCount, url, stream, fetchVars, scraped, metadata, llmCalls,
                   summary, pairs, rawResults, consensus, history, aggResp, canonResp>>

\* event_stream line 222
AnnounceConsensus ==
    /\ UNCHANGED auxVars
    /\ pc = "announce_consensus"
    /\ events' = Append(events, SseEvent("status", "Finding consensus..."))
    /\ pc' = "consensus"
    /\ UNCHANGED <<db, reqCount, url, stream, fetchVars, scraped, metadata, llmCalls,
                   summary, pairs, rawResults, evaluations, consensus, history,
                   aggResp, canonResp, response>>

\* evaluate.aggregate_evaluations (lines 223, 281), and, streaming, the yield
\* of line 225
ConsensusCall(resp) ==
    /\ UNCHANGED auxVars
    /\ pc = "consensus"
    /\ llmCalls' = Append(llmCalls, "consensus")
    /\ aggResp' = resp
    /\ LET c == AggregateEvaluations(evaluations, resp)
       IN  IF ~ c.ok
           THEN Fails("consensus", c.exc) /\ UNCHANGED <<consensus, events>>
           ELSE /\ consensus' = c.val
                /\ events' = IF stream
                             THEN Append(events,
                                         SseEvent("status", "Getting historical data..."))
                             ELSE events
                /\ pc' = "history"
                /\ response' = response
    /\ UNCHANGED <<db, reqCount, url, stream, fetchVars, scraped, metadata, summary,
                   pairs, rawResults, evaluations, history, canonResp>>

\* db.get_consensus_stats_for_url (lines 226, 283) when no row has the URL
HistoryEmpty ==
    /\ UNCHANGED auxVars
    /\ pc = "history"
    /\ RowsFor(db, url) = <<>>
    /\ history' = HistoryOf(url, EmptyStats, "")
    /\ pc' = "finish"
    /\ UNCHANGED <<db, reqCount, url, stream, fetchVars, scraped, metadata, llmCalls,
                   summary, pairs, rawResults, evaluations, events, consensus, aggResp,
                   canonResp, response>>

\* db.get_consensus_stats_for_url when rows have it: the stats and the
\* deduplication call
HistoryCall(resp) ==
    /\ UNCHANGED auxVars
    /\ pc = "history"
    /\ RowsFor(db, url) # <<>>
    /\ llmCalls' = Append(llmCalls, "deduplication")
    /\ canonResp' = resp
    /\ LET h == Canonicalize(url, RawStats(RowsFor(db, url)), resp)
       IN  IF ~ h.ok
           THEN Fails("history", h.exc) /\ history' = history
           ELSE history' = h.val /\ pc' = "finish" /\ response' = response
    /\ UNCHANGED <<db, reqCount, url, stream, fetchVars, scraped, metadata, summary,
                   pairs, rawResults, evaluations, events, consensus, aggResp>>

\* lines 228-242 / 285-299: AnalyzeResponse, insert_result, and the done
\* event or the return
Finish ==
    /\ UNCHANGED auxVars
    /\ pc = "finish"
    /\ IF ~ ValidAnalyzeResponse(evaluations)
       THEN Fails("result", "ValidationError") /\ UNCHANGED <<db, events>>
       ELSE LET final == FinalResult(url, metadata, summary, evaluations, consensus,
                                     history)
            IN  /\ db' = InsertRow(db, RowOf(final))
                /\ events' = IF stream THEN Append(events, SseEvent("done", final))
                             ELSE events
                /\ response' = Completed(final)
                /\ pc' = "done"
    /\ UNCHANGED <<reqCount, url, stream, fetchVars, scraped, metadata, llmCalls,
                   summary, pairs, rawResults, evaluations, consensus, history,
                   aggResp, canonResp>>

Next ==
    \/ \E p \in Paths, s \in BOOLEAN : Submit(p, s)
    \/ \E out \in FetchOutcomes : FetchAttempt(out)
    \/ \E ok \in BOOLEAN : PlaywrightFallback(ok)
    \/ \E title \in Titles, body \in Bodies : ParseArticle(title, body)
    \/ ParseRaises
    \/ ContentGate
    \/ \E resp \in SummaryResponses : SummaryCall(resp)
    \/ \E n \in 0..MaxPool : \E shuffled \in Shuffles(SubSeq(ModelNames, 1, n)) :
           Dispatch(shuffled)
    \/ StreamStart
    \/ EvaluatorCall
    \/ EvaluatorReturn
    \/ ProcessResult
    \/ AnnounceConsensus
    \/ \E resp \in AggregatorResponses : ConsensusCall(resp)
    \/ HistoryEmpty
    \/ \E resp \in DeduplicationResponses : HistoryCall(resp)
    \/ Finish

Spec == Init /\ [][Next]_vars

(***************************************************************************)
(* The runs of Spec read to their end.  A consumer of /analyze/stream may  *)
(* also stop reading: StreamingResponse (app.py lines 42-45) pulls the     *)
(* events out of the generator event_stream, which runs from one yield to  *)
(* the next only when the next event is asked for, and is closed at the    *)
(* yield it is suspended at when the consumer is gone.                     *)
(***************************************************************************)
\* The stream was closed with this many events delivered.
Closed(delivered) == [kind |-> "closed", status |-> 200, delivered |-> delivered]

\* event_stream is suspended at a yield: lines 176, 193 / 220, 222, 225
AtYield ==
    /\ stream
    /\ events # <<>>
    /\ pc \in {"gather", "process", "announce_consensus", "consensus", "history"}
    /\ pc = "gather" => rawResults = <<>>
    /\ pc = "process" => evaluations # <<>>

\* the consumer stops reading: nothing after the yield runs
Disconnect ==
    /\ AtYield
    /\ pc' = "done"
    /\ response' = Closed(Len(events))
    /\ UNCHANGED <<db, reqCount, url, stream, fetchVars, scraped, metadata, llmCalls,
                   evalVars, auxVars>>

NextStream ==
    \/ Next
    \/ Disconnect

SpecStream == Init /\ [][NextStream]_vars

(***************************************************************************)
(* The fan-out over a batch of up to MaxFanoutPairs pairs.  A run has      *)
(* built its pairs (run_analysis lines 161-172); of the run only what the  *)
(* fan-out reads and writes is kept.                                       *)
(***************************************************************************)
FanoutPairs(k) == BuildPairs(SubSeq(ModelNames, 1, 2 * k)).pairs

InitFanout ==
    /\ db = <<>>
    /\ reqCount = 1
    /\ url = <<"/", "N", "e", "w", "s", "/", "a">>
    /\ stream \in BOOLEAN
    /\ pc = IF stream THEN "stream_start" ELSE "gather"
    /\ attempt = 0
    /\ delays = <<>>
    /\ lastExc = None
    /\ fallbackCalls = 0
    /\ html = "none"
    /\ scraped = None
    /\ metadata = None
    /\ llmCalls = <<"summary">>
    /\ summary = None
    /\ \E k \in 1..MaxFanoutPairs : pairs = FanoutPairs(k)
    /\ rawResults = <<>>
    /\ evaluations = <<>>
    /\ events = <<>>
    /\ consensus = None
    /\ history = None
    /\ aggResp = None
    /\ canonResp = None
    /\ response = None
    /\ Quiet

NextFanout ==
    \/ StreamStart
    \/ EvaluatorCall
    \/ EvaluatorReturn
    \/ ProcessResult
    \/ AnnounceConsensus

SpecFanout == InitFanout /\ [][NextFanout]_vars

(***************************************************************************)
(* The historical stats of a URL over a table of rows.  A request has      *)
(* reached get_consensus_stats_for_url; the table holds up to MaxStatsRows *)
(* rows, of this URL and of another.                                       *)
(***************************************************************************)
StatsUrl == <<"/", "N", "e", "w", "s", "/", "a">>
OtherUrl == CHOOSE u \in StoreUrls : u # StatsUrl

\* The rows tried: the field fairness with a consensus value or with "No
\* Consensus", under no, one or two evaluations
TriedRows ==
    { StoredRow(StatsUrl, ConsensusGood, <<>>),
      StoredRow(StatsUrl, ConsensusGood, <<EvaluationGood, EvaluationGood>>),
      StoredRow(StatsUrl, ConsensusSplit, <<EvaluationGood>>),
      StoredRow(OtherUrl, ConsensusSplit, <<EvaluationGood>>) }

InitStats ==
    /\ db \in SeqsUpTo(TriedRows, MaxStatsRows)
    /\ reqCount = 1
    /\ pc = "history"
    /\ url = StatsUrl
    /\ stream = FALSE
    /\ attempt = 0
    /\ delays = <<>>
    /\ lastExc = None
    /\ fallbackCalls = 0
    /\ html = "none"
    /\ scraped = None
    /\ metadata = None
    /\ llmCalls = <<>>
    /\ summary = None
    /\ pairs = <<>>
    /\ rawResults = <<>>
    /\ evaluations = <<>>
    /\ events = <<>>
    /\ consensus = None
    /\ history = None
    /\ aggResp = None
    /\ canonResp = None
    /\ response = None
    /\ Quiet

NextStats ==
    \/ HistoryEmpty
    \/ \E resp \in DeduplicationResponses : HistoryCall(resp)

SpecStats == InitStats /\ [][NextStats]_vars

(***************************************************************************)
(* The results table under runs that overlap.  Of a run only its steps at  *)
(* the table are kept: the SELECT of get_consensus_stats_for_url, and      *)
(* insert_result; between the two an exception may end the run.  Each      *)
(* statement opens its own connection and is one step.                     *)
(***************************************************************************)
InFlight == Cardinality({r \in RunIds : runs[r].at \in {"history", "finish"}})

\* a submission of u reaches the history read
StoreBegin(r, u) ==
    /\ runs[r].at \in {"idle", "done"}
    /\ Len(db) + InFlight < MaxStoreRows
    /\ runs' = [runs EXCEPT ![r].at = "history", ![r].url = u, ![r].seen = 0]
    /\ UNCHANGED <<db, pipeVars, rawText, parsedAt>>

\* db.py lines 51-53
StoreRead(r) ==
    /\ runs[r].at = "history"
    /\ runs' = [runs EXCEPT ![r].at = "finish",
                            ![r].seen = Len(RowsFor(db, runs[r].url))]
    /\ UNCHANGED <<db, pipeVars, rawText, parsedAt>>

\* db.py line 174, analysis.py lines 285-295: an exception before the insert
StoreFail(r) ==
    /\ runs[r].at = "finish"
    /\ runs' = [runs EXCEPT ![r].at = "done", ![r].seen = 0]
    /\ UNCHANGED <<db, pipeVars, rawText, parsedAt>>

\* analysis.py line 297, db.insert_result
StoreInsert(r, cons) ==
    /\ runs[r].at = "finish"
    /\ db' = InsertRow(db, StoredRow(runs[r].url, cons, <<>>))
    /\ runs' = [runs EXCEPT ![r].at = "done", ![r].seen = 0,
                            ![r].ended[runs[r].url] = @ + 1]
    /\ UNCHANGED <<pipeVars, rawText, parsedAt>>

InitStore ==
    /\ db = <<>>
    /\ AtRest
    /\ Quiet

NextStore ==
    \E r \in RunIds :
        \/ \E u \in StoreUrls : StoreBegin(r, u)
        \/ StoreRead(r)
        \/ StoreFail(r)
        \/ \E cons \in {ConsensusGood, ConsensusSplit} : StoreInsert(r, cons)

SpecStore == InitStore /\ [][NextStore]_vars

(***************************************************************************)
(* The decoding of a completion's text, site by site.  A text is drawn,    *)
(* and each place that decodes a text decodes it once.                     *)
(***************************************************************************)

\* [1], [1, 1], ...: the lists of numbers of at most MaxListLen elements
NumberLists == {JList([i \in 1..n |-> JNum(1)]) : n \in 1..MaxListLen}

\* The JSON objects tried
TriedObjects ==
    { EmptyDict, JObj([a |-> JNum(1)]), SummaryGood, EvaluationGood, ConsensusGood,
      DedupFairness }

\* The JSON values tried that are no object
TriedOthers ==
    { JList(<<>>), JList(<<JStr("x")>>), JNum(5), JNull, JStr("hello") } \cup NumberLists

\* The texts tried: each value as it is, fenced, encoded twice, encoded twice
\* and fenced; each object or list among prose; prose; the empty string.
RawTexts ==
    LET tried == TriedObjects \cup TriedOthers
    IN  {TextJson(v) : v \in tried}
        \cup {TextFenced(v) : v \in tried}
        \cup {TextJson(DoubleEncoded(v)) : v \in tried}
        \cup {TextFenced(DoubleEncoded(v)) : v \in tried}
        \cup {TextEmbedded(v) : v \in {w \in tried : w.t \in {"obj", "list"}}}
        \cup {TextProse, TextEmpty}

InitNormalizer ==
    /\ db = <<>>
    /\ AtRest
    /\ rawText \in RawTexts
    /\ parsedAt = [site \in Sites |-> None]
    /\ runs = [r \in RunIds |-> IdleRun]

\* The site decodes the text
ParseAt(site) ==
    /\ parsedAt[site] = None
    /\ parsedAt' = [parsedAt EXCEPT ![site] = ParsedBy(site, rawText)]
    /\ UNCHANGED <<db, pipeVars, rawText, runs>>

NextNormalizer == \E site \in Sites : ParseAt(site)

SpecNormalizer == InitNormalizer /\ [][NextNormalizer]_vars
(***************************************************************************)
(* What the properties below speak of.                                     *)
(***************************************************************************)
\* The request ended with a response of this kind.
Ended(kind) == pc = "done" /\ response.kind = kind

\* The request ended by an exception raised at this stage.
EndedByException(stage) == Ended("error") /\ response.stage = stage

\* The path segments, counted without the code's split: a segment starts at
\* a character that is no "/" and follows a "/" or nothing.
SegmentStarts(path) ==
    {i \in 1..Len(path) : path[i] # "/" /\ (i = 1 \/ path[i - 1] = "/")}

AtMostOneSegment(path) == Cardinality(SegmentStarts(path)) <= 1

\* The lower-cased path shows none of the article patterns.
NoArticlePattern(path) ==
    /\ ~ DatePatternSearch(Lower(path))
    /\ \A seg \in ArticleKeywords : ~ Contains(Lower(path), seg)
    /\ ~ EndsWith(Lower(path), DotHtml)
    /\ ~ EndsWith(Lower(path), DotHtm)

\* A scrape result is at hand and its body, trimmed, is under 500 characters.
BodyTooShort == scraped # None /\ StrStrip(ScrapedText(scraped)).core < 500

\* A scrape result is at hand and its title is missing, empty, or, trimmed,
\* under 5 characters.
TitleMissingOrShort ==
    /\ scraped # None
    /\ \/ scraped.t # "article"
       \/ scraped.title.none
       \/ StrLen(scraped.title.s) = 0
       \/ StrStrip(scraped.title.s).core < 5

ValidationRejected ==
    Ended("rejected") /\ response.detail \in {"not_article_url", "too_short", "no_title"}

\* Every evaluator call of the batch has returned, and each either failed or
\* returned a well-formed evaluation.
BatchReturned ==
    /\ pairs # <<>>
    /\ Len(rawResults) = Len(pairs)
    /\ \A i \in 1..Len(pairs) :
          rawResults[i] \in {ErrorTuple, Completion(pairs[i][1], TextJson(EvaluationGood))}

\* The loop over the batch is over, one way or the other.
BatchProcessed == BatchReturned /\ pc \notin {"gather", "process"}

EventNames == [i \in 1..Len(events) |-> events[i].event]

ExpectedEventNames(n) ==
    <<"status">> \o [i \in 1..n |-> "evaluation"] \o <<"status", "status", "done">>

\* The canonicalization call failed, or its text does not validate.
CanonicalizationFailed ==
    /\ canonResp # None
    /\ \/ canonResp = ErrorTuple
       \/ ~ JsonLoads(canonResp.text).ok
       \/ ~ ValidDeduplication(JsonLoads(canonResp.text).val)

\* The scrape has declared failure of the primary fetch: the fallback is
\* due, or ran, or the error dict was returned.
RetriesExhausted ==
    \/ pc = "playwright"
    \/ pc = "parse" /\ html = "playwright"
    \/ pc = "gate" /\ scraped.t = "error"

(***************************************************************************)
(* C1.  For a batch of N evaluator calls of which k fail, the evaluations  *)
(* handed to the consensus step have length N, hold a sentinel record      *)
(* (model "error") exactly at the positions of the failed calls and the    *)
(* record of each other call at its dispatch position, and the batch is    *)
(* not aborted; in both entry points.                                      *)
(* The code does not do this: call_openrouter returns a tuple for a failed *)
(* call, which is no Exception, and r.get raises on it.                    *)
(***************************************************************************)
C1_SentinelAtEachFailedCall ==
    BatchProcessed =>
        /\ ~ EndedByException("evaluations")
        /\ Len(evaluations) = Len(pairs)
        /\ \A i \in 1..Len(evaluations) :
              IF rawResults[i] = ErrorTuple
              THEN evaluations[i] = SentinelEvaluation
              ELSE evaluations[i].f.model = JStr(rawResults[i].model)

(***************************************************************************)
(* C2.  aggregate_evaluations never raises: whatever the aggregator call   *)
(* gave (a failure, text that does not parse, text of the wrong shape),    *)
(* the caller has a consensus with every required field, and after a       *)
(* validation failure its notes carry the failure's text.                  *)
(* The code does not do this: resp.get raises on the tuple of a failed     *)
(* call, and the fallback dict of line 173 does not validate either.       *)
(***************************************************************************)
C2_ConsensusNeverRaises ==
    aggResp # None =>
        /\ ~ EndedByException("consensus")
        /\ IsDict(consensus)
        /\ {"article", "publication", "confidence", "notes", "model"}
               \subseteq DOMAIN consensus.f
        /\ ~ (aggResp.t = "dict" /\ ValidConsensus(CleanLlmJson(aggResp.text)))
               => consensus.f.notes = JStr("ValidationError")

(***************************************************************************)
(* C3.  A run ends in a failure only by a validation rejection or a fetch  *)
(* failure: once the content gate has passed, the run ends with the final  *)
(* result (the done event when streaming) and its row persisted, whatever  *)
(* the summary, evaluator, consensus and canonicalization calls gave.      *)
(* The code does not do this: a failed or malformed call raises.           *)
(***************************************************************************)
C3_OnlyValidationOrFetchTerminates ==
    pc = "done" =>
        IF metadata = None
        THEN Ended("rejected")
        ELSE /\ Ended("ok")
             /\ db # <<>> /\ db[Len(db)].url = url
             /\ stream => events # <<>> /\ events[Len(events)].event = "done"

(***************************************************************************)
(* C4.  With a row for the URL and a canonicalization call that failed or  *)
(* gave what does not validate, get_consensus_stats_for_url returns the    *)
(* stats of the deterministic phase unchanged, and the failure does not    *)
(* reach the caller.                                                       *)
(* The code does not do this: result["text"] raises on the tuple of a      *)
(* failed call and model_validate_json raises on invalid text.             *)
(***************************************************************************)
C4_RawStatsOnCanonicalizationFailure ==
    (CanonicalizationFailed /\ ~ Ended("ok")) =>
        /\ ~ EndedByException("history")
        /\ history # None
        /\ history.stats = RawStats(RowsFor(db, url))

(***************************************************************************)
(* C5.  A streaming run that passed validation and dispatched N evaluator  *)
(* calls emits exactly status, evaluation x N, status, status, done,       *)
(* whichever of the calls failed.                                          *)
(* The code does not do this: the failed call of C1 ends the stream after  *)
(* the first status event.                                                 *)
(***************************************************************************)
C5_StreamEventOrder ==
    (stream /\ pc = "done" /\ BatchReturned) =>
        EventNames = ExpectedEventNames(Len(pairs))

(***************************************************************************)
(* C6.  A request whose path is empty, the root, or of at most one segment *)
(* is rejected with the 400 of the URL check, and no fetch, no fallback    *)
(* and no summary, evaluator or aggregator call is made for it, streaming  *)
(* or not.                                                                 *)
(***************************************************************************)
C6_ShortPathRejectedBeforeFetch ==
    (pc # "idle" /\ AtMostOneSegment(url)) =>
        /\ pc = "done"
        /\ response = [kind |-> "rejected", status |-> 400, detail |-> "not_article_url"]
        /\ attempt = 0
        /\ fallbackCalls = 0
        /\ html = "none"
        /\ scraped = None
        /\ llmCalls = <<>>
        /\ events = <<>>

C6_Witness ==
    /\ pc = "done"
    /\ stream
    /\ reqCount = 2
    /\ db # <<>>
    /\ Cardinality(SegmentStarts(url)) = 1
    /\ EndsWith(url, DotHtml)
    /\ response.status = 400

(***************************************************************************)
(* C7, as the specification states it.  Validation rejects a request if    *)
(* and only if its path is empty, the root or of at most one segment, or   *)
(* its body, trimmed, is under 500 characters, or its title is missing or, *)
(* trimmed, under 5 characters.                                            *)
(***************************************************************************)
C7_ExactlyThreeReasons ==
    pc = "done" =>
        (ValidationRejected <=>
            AtMostOneSegment(url) \/ BodyTooShort \/ TitleMissingOrShort)

(***************************************************************************)
(* C7, amended.  Validation rejects a request if and only if its path is   *)
(* empty, the root or of at most one segment, or its lower-cased path      *)
(* shows no article pattern (a /YYYY/M/D/ date, one of the eight keywords, *)
(* a .html or .htm ending), or its body, trimmed, is under 500             *)
(* characters, or its title is missing or, trimmed, under 5 characters;    *)
(* and the path reasons reject before any fetch.                           *)
(***************************************************************************)
C7_ExactlyFourReasons ==
    pc = "done" =>
        /\ ValidationRejected <=>
              \/ AtMostOneSegment(url)
              \/ NoArticlePattern(url)
              \/ BodyTooShort
              \/ TitleMissingOrShort
        /\ (AtMostOneSegment(url) \/ NoArticlePattern(url)) <=>
              (Ended("rejected") /\ response.detail = "not_article_url")
        /\ (AtMostOneSegment(url) \/ NoArticlePattern(url)) => scraped = None

C7_Witness ==
    /\ Ended("rejected")
    /\ response.detail = "not_article_url"
    /\ Cardinality(SegmentStarts(url)) = 3
    /\ llmCalls = <<>>

(***************************************************************************)
(* C8.  A scrape result whose body, trimmed, is under 500 characters is    *)
(* rejected as too short whatever its title, valid, short or missing, and  *)
(* no summary, evaluator or aggregator call is made.                       *)
(***************************************************************************)
C8_ShortBodyRejectedWhateverTitle ==
    (BodyTooShort /\ pc # "gate") =>
        /\ pc = "done"
        /\ response = [kind |-> "rejected", status |-> 400, detail |-> "too_short"]
        /\ metadata = None
        /\ llmCalls = <<>>
        /\ events = <<>>

C8_Witness ==
    /\ Ended("rejected")
    /\ response.detail = "too_short"
    /\ scraped.t = "article"
    /\ scraped.text.core = 499
    /\ scraped.title.none

(***************************************************************************)
(* C9.  When every attempt of the primary fetch fails, failure is declared *)
(* after exactly 3 attempts, the waits between them are 1 s then 2 s,      *)
(* strictly increasing and never over 8 s, and a request starts with no    *)
(* attempt count and no delay of an earlier one.                           *)
(***************************************************************************)
C9_ThreeAttemptsExponentialBackoff ==
    /\ attempt <= 3
    /\ RetriesExhausted => attempt = 3 /\ delays = <<1, 2>> /\ lastExc # None
    /\ pc = "fetch" =>
          /\ attempt < 3
          /\ delays = SubSeq(<<1, 2>>, 1, attempt)
          /\ (attempt = 0) <=> (lastExc = None)
    /\ \A i \in 1..Len(delays) :
          /\ delays[i] <= 8
          /\ i > 1 => delays[i] = 2 * delays[i - 1]

C9_Witness ==
    /\ reqCount = 2
    /\ db # <<>>
    /\ pc = "gate"
    /\ scraped.t = "error"
    /\ scraped.cls = "ReadTimeout"
    /\ attempt = 3
    /\ delays = <<1, 2>>

(***************************************************************************)
(* C10.  The full-render fallback is invoked if and only if the primary    *)
(* retries are exhausted and the last attempt failed with status 403; at   *)
(* most once in a fetch; never after an attempt that succeeded, a timeout, *)
(* a connection error or another final status.                             *)
(***************************************************************************)
C10_FallbackOnlyAfterFinal403 ==
    LET final403 == /\ lastExc # None
                    /\ lastExc.cls = "HTTPStatusError"
                    /\ lastExc.status = 403
    IN  /\ fallbackCalls <= 1
        /\ (pc = "playwright" \/ fallbackCalls = 1) =>
              attempt = 3 /\ final403 /\ html # "httpx"
        /\ pc = "playwright" => fallbackCalls = 0
        /\ (RetriesExhausted /\ pc # "playwright") => (fallbackCalls = 1 <=> final403)
        /\ (pc = "parse" /\ html = "httpx") => fallbackCalls = 0

C10_Witness ==
    /\ pc = "gate"
    /\ fallbackCalls = 1
    /\ attempt = 3
    /\ lastExc.status = 403
    /\ scraped = PlaywrightErrorDict

(***************************************************************************)
(* C11.  A fetch that ends in failure (retries exhausted on another final  *)
(* status or exception than 403, or a failed fallback) ends the run before *)
(* any model call with a fetch failure that carries the status or the      *)
(* exception class and is no content-validation rejection.                 *)
(* The code does not do this: scrape_article returns the error as a dict,  *)
(* the dict has no text, and the run ends with the too-short rejection.    *)
(***************************************************************************)
C11_FetchFailureSurfacesAsFetchFailure ==
    (pc = "done" /\ scraped.t = "error") =>
        /\ llmCalls = <<>>
        /\ Ended("rejected")
        /\ response.detail \notin {"not_article_url", "too_short", "no_title"}

(***************************************************************************)
(* C12.  Whatever the size of the evaluator pool and whatever the shuffle, *)
(* the dispatch does not fail, the pairs are pairwise disjoint, there are  *)
(* at most 3 of them, and one call is made for each.                       *)
(* The code does not do this: a pool of odd size under 6 makes             *)
(* model_list[i + 1] an IndexError.                                        *)
(***************************************************************************)
C12_PairsForEveryPool ==
    /\ ~ EndedByException("dispatch")
    /\ Len(pairs) <= 3
    /\ \A i \in 1..Len(pairs) :
          /\ pairs[i][1] # pairs[i][2]
          /\ \A j \in 1..Len(pairs) : i # j => {pairs[i][1], pairs[i][2]} \cap
                                                {pairs[j][1], pairs[j][2]} = {}
    /\ Len(rawResults) <= Len(pairs)

(***************************************************************************)
(* C17.  An evaluator answer that no strategy can parse does not make the  *)
(* run raise: its record is produced with "Unknown"-style values, and the  *)
(* run goes on to consensus, history, persistence and the final result.    *)
(* The code does not do this: the record has article {} and publication    *)
(* {}, which AnalyzeResponse refuses, so the run raises before the insert. *)
(***************************************************************************)
C17_UnparseableEvaluationDegrades ==
    (/\ pc = "done"
     /\ pairs # <<>>
     /\ Len(rawResults) = Len(pairs)
     /\ \A i \in 1..Len(pairs) : rawResults[i] = Completion(pairs[i][1], TextProse)
     /\ ~ EndedByException("consensus")
     /\ ~ EndedByException("history")) =>
        /\ Ended("ok")
        /\ Len(evaluations) = Len(pairs)
        /\ db # <<>> /\ db[Len(db)].url = url


(***************************************************************************)
(* C14: each field of the stats get_consensus_stats_for_url returns has    *)
(* total > 0 and consensus + no_consensus = 100 (1000 tenths), before and  *)
(* after the canonicalization rewrote total.  The rewritten total is the   *)
(* sum of the counts the canonicalization answered, which may be none.     *)
(***************************************************************************)
StatsReturned == history # None /\ pc = "finish"

C14_RatiosSumTo100AndTotalPositive ==
    StatsReturned =>
        \A field \in DOMAIN history.stats :
            /\ history.stats[field].total > 0
            /\ history.stats[field].consensus + history.stats[field].no_consensus = 1000

(***************************************************************************)
(* C15, as stated: with n >= 1 rows for the URL, of which c show a         *)
(* consensus value for fairness and n - c show "No Consensus", the stats   *)
(* are returned with consensus = 100c/n and no_consensus = 100(n-c)/n      *)
(* rounded to a tenth and total = n, whether or not the canonicalization   *)
(* succeeded.                                                              *)
(***************************************************************************)
UrlRows == RowsFor(db, url)

Observed == Len(UrlRows)

WithConsensus ==
    Cardinality({i \in 1..Len(UrlRows) :
        UrlRows[i].result.f.consensus.f.article.f.fairness # JStr("No Consensus")})

\* tenths is 1000 * count / total rounded to an integer
IsRounded(tenths, count, total) ==
    LET diff == tenths * total - 1000 * count
    IN  2 * diff <= total /\ 2 * (0 - diff) <= total

RatiosOfRows(fieldStats) ==
    /\ IsRounded(fieldStats.consensus, WithConsensus, Observed)
    /\ IsRounded(fieldStats.no_consensus, Observed - WithConsensus, Observed)

HistoryOver == pc \in {"finish", "done"} /\ canonResp # None

CanonicalAnswers == DedupedMap(HistoryParse(canonResp.text).val.f.stats.xs)

RECURSIVE EndedUpTo(_, _)
EndedUpTo(n, u) == IF n = 0 THEN 0 ELSE runs[n].ended[u] + EndedUpTo(n - 1, u)

CompletedFor(u) == EndedUpTo(MaxRuns, u)

RowsKept == Len(db') >= Len(db) /\ SubSeq(db', 1, Len(db)) = db

OneRowPerCompletion ==
    \A r \in RunIds :
        runs'[r].ended # runs[r].ended =>
            /\ Len(db') = Len(db) + 1
            /\ db'[Len(db')].url = runs[r].url

ReadSeesCompleted ==
    \A r \in RunIds :
        (runs[r].at = "history" /\ runs'[r].at = "finish") =>
            runs'[r].seen = CompletedFor(runs[r].url)

C16_StoreIsAppendOnly ==
    /\ [](\A u \in StoreUrls : Len(RowsFor(db, u)) = CompletedFor(u))
    /\ [][RowsKept /\ OneRowPerCompletion /\ ReadSeesCompleted]_vars

\* two runs each completed a submission of the same URL, with different
\* results, and a read made since has returned both rows
C16_Witness ==
    \E u \in StoreUrls :
        /\ runs[1].ended[u] = 1 /\ runs[2].ended[u] = 1
        /\ Len(RowsFor(db, u)) = 2
        /\ RowsFor(db, u)[1] # RowsFor(db, u)[2]
        /\ \E r \in RunIds : runs[r].at = "finish" /\ runs[r].url = u /\ runs[r].seen = 2

(***************************************************************************)
(* C13: for every JSON object o, clean_llm_json of the text of o inside    *)
(* code fences, of the text of o encoded twice (a JSON string holding the  *)
(* JSON text of o), and of the twice-encoded text inside fences, is o.     *)
(* utils.py line 18 strips the quotes of the outer string and leaves its   *)
(* content escaped, which decodes at no later step unless o is {}.         *)
(***************************************************************************)
Wrappings(o) ==
    {TextFenced(o), TextJson(DoubleEncoded(o)), TextFenced(DoubleEncoded(o))}

Parsed(site) == parsedAt[site] # None

C13_NormalizerRoundTrip ==
    \A o \in TriedObjects :
        (rawText \in Wrappings(o) /\ Parsed("normalizer")) =>
            parsedAt["normalizer"] = Return(o)

(***************************************************************************)
(* C18: in a streaming run, no evaluation event is emitted before every    *)
(* call of the batch has resolved, and once the loop over the batch is     *)
(* over the evaluation events are one per call, in dispatch order, the     *)
(* i-th carrying the record of the i-th call: the sentinel record for a    *)
(* failed call.  A failed call gives a tuple, on which r.get raises: the   *)
(* loop ends there, with the events of the calls before it.                *)
(***************************************************************************)
EvaluationEvents == SelectSeq(events, LAMBDA e : e.event = "evaluation")

ExpectedRecord(r) ==
    IF r = ErrorTuple THEN SentinelEvaluation ELSE EvaluationDict(r, LoadsOrEmpty(r.text))

C18_StreamedRecordsInDispatchOrder ==
    stream =>
        /\ Len(rawResults) < Len(pairs) => EvaluationEvents = <<>>
        /\ (BatchReturned /\ pc # "process") =>
              EvaluationEvents =
                  [i \in 1..Len(pairs) |->
                      SseEvent("evaluation", ExpectedRecord(rawResults[i]))]

(***************************************************************************)
(* C19: every call site applies the same normalization: what the fan-out,  *)
(* the consensus call and the canonicalization make of a raw text is       *)
(* clean_llm_json of that text.  The fan-out and the canonicalization call *)
(* json.loads and model_validate_json on the text as it is.                *)
(***************************************************************************)
C19_SameNormalizationAtEverySite ==
    \A site \in {"fanout", "consensus", "history"} :
        Parsed(site) => parsedAt[site] = Return(CleanLlmJson(rawText))

(***************************************************************************)
(* C20: clean_llm_json returns a dict or a list for every text, and the    *)
(* empty dict when nothing of the text decodes; it never raises.  A text   *)
(* that decodes to a number or to null is returned decoded.                *)
(***************************************************************************)
C20_NormalizerReturnsDictOrList ==
    Parsed("normalizer") =>
        /\ parsedAt["normalizer"].ok
        /\ parsedAt["normalizer"].val.t \in {"obj", "list"}
        /\ (rawText \in {TextProse, TextEmpty} => parsedAt["normalizer"].val = EmptyDict)


(***************************************************************************)
(* C21: the evaluator calls of a batch are dispatched concurrently: no     *)
(* call waits for another to start, so with two or more pairs, once a call *)
(* has resolved, slowly or by failing, every call of the batch has been    *)
(* sent.  call_openrouter blocks the event loop in requests.post: the      *)
(* second call is sent only when the first has returned, and at most one   *)
(* call is ever in flight.                                                 *)
(***************************************************************************)
InFlightCalls == IF pc = "calling" THEN 1 ELSE 0

SentCalls == Len(rawResults) + InFlightCalls

C21_CallsDispatchedConcurrently ==
    (Len(pairs) >= 2 /\ Len(rawResults) >= 1) => SentCalls = Len(pairs)


(***************************************************************************)
(* C22: in every run, streaming or not, the steps come in the order        *)
(* fan-out, consensus, history read, insert: the completions are asked for *)
(* in that order, the consensus is there only once every evaluation is,    *)
(* the history only once the consensus is, and a row is inserted only by a *)
(* run that holds its history.  The history of a completed run is over the *)
(* rows of its URL that were there before its own row and over no other:   *)
(* none for a first submission, which asks for no canonicalization, and    *)
(* k - 1 for the k-th.                                                     *)
(***************************************************************************)
StageRank(call) ==
    IF call = "summary" THEN 0
    ELSE IF call = "evaluation" THEN 1
    ELSE IF call = "consensus" THEN 2
    ELSE 3

CallsInStageOrder ==
    \A i \in 1..Len(llmCalls) : \A j \in i..Len(llmCalls) :
        StageRank(llmCalls[i]) <= StageRank(llmCalls[j])

StagesInOrder ==
    /\ CallsInStageOrder
    /\ consensus # None => Len(evaluations) = Len(pairs)
    /\ history # None => consensus # None

\* the rows of the run's URL below its own row, which is the last
EarlierRows ==
    SelectSeq(SubSeq(db, 1, Len(db) - 1), LAMBDA row : row.url = url)

HistoryOverEarlierRows ==
    Ended("ok") =>
        /\ response.result.history = history
        /\ DOMAIN history.stats = DOMAIN RawStats(EarlierRows)
        /\ \A field \in DOMAIN history.stats :
              /\ history.stats[field].consensus = RawStats(EarlierRows)[field].consensus
              /\ history.stats[field].no_consensus =
                    RawStats(EarlierRows)[field].no_consensus
        /\ EarlierRows = <<>> =>
              history.stats = EmptyStats /\ StageRank(llmCalls[Len(llmCalls)]) < 3
        /\ EarlierRows # <<>> => llmCalls[Len(llmCalls)] = "deduplication"

InsertIsLast ==
    db' # db =>
        /\ history # None
        /\ db' = Append(db, db'[Len(db')])
        /\ db'[Len(db')].url = url
        /\ pc' = "done"

C22_HistoryBeforeInsert ==
    /\ [](StagesInOrder /\ HistoryOverEarlierRows)
    /\ [][InsertIsLast]_vars

\* a second submission of a URL has completed: its history is over the one
\* row of the first
C22_Witness ==
    /\ Ended("ok")
    /\ Len(EarlierRows) = 1
    /\ history.stats # EmptyStats
    /\ history.stats["fairness"].total >= 1


(***************************************************************************)
(* C23: in a streaming run the done event comes after the one insert of    *)
(* the run's result, and a consumer that stops reading at an earlier event *)
(* loses nothing of the run but the delivery: the calls made stay made,    *)
(* no exception ends the run, and its analysis is persisted, once.         *)
(* The generator is closed at the yield it is suspended at: the consensus, *)
(* the history and the insert that come after it never run.                *)
(***************************************************************************)
DoneDelivered == events # <<>> /\ events[Len(events)].event = "done"

RunPersistedOnce ==
    /\ db # <<>>
    /\ db[Len(db)].url = url
    /\ Len(db) <= reqCount

C23_DisconnectOnlyTruncatesDelivery ==
    /\ DoneDelivered => RunPersistedOnce /\ db[Len(db)] = RowOf(response.result)
    /\ Ended("closed") => RunPersistedOnce

=============================================================================
